---- MODULE Spec2Model ----
(***************************************************************************)
(* Model of tools/package-plugin.py: pack_plugin(plugin_dir, output_path)  *)
(* run against a small filesystem.  A path is a sequence of components, a  *)
(* filesystem is a record [files, dirs]: files maps the paths of regular   *)
(* files to their content, dirs is the set of directories.  Every line of  *)
(* pack_plugin that touches the filesystem is one step; a step is a pure   *)
(* operator from (filesystem, locals) to (filesystem, locals) and an       *)
(* action applies it for one invocation.                                   *)
(***************************************************************************)
EXTENDS Integers, Sequences, FiniteSets, TLC

VARIABLES files, dirs, proc, clock, faults

vars == <<files, dirs, proc, clock, faults>>

\* ------------------------------------------------------------------ bounds
MaxRuns == 2
MaxFaults == 1
MaxDistFiles == 2

\* ------------------------------------------------------------------- paths

Under(p, d) == Len(p) > Len(d) /\ SubSeq(p, 1, Len(d)) = d
Within(p, d) == p = d \/ Under(p, d)
RelativeTo(p, d) == SubSeq(p, Len(d) + 1, Len(p))
Parent(p) == SubSeq(p, 1, Len(p) - 1)
Name(p) == p[Len(p)]

\* ---------------------------------------------------------------- contents
Unset == [unset |-> TRUE]
Raw(b) == [k |-> "raw", v |-> b]
Truncated == [k |-> "truncated"]
EmptyFile == [k |-> "raw", v |-> ""]
ZipBytes(entries) == [k |-> "zip", v |-> entries]

\* json.dump of a dict / json.load of a file's content
JsonDump(d) == [k |-> "json", t |-> "object", v |-> d]
JsonArray(s) == [k |-> "json", t |-> "array", items |-> s]
JsonParses(c) == c.k = "json"

\* Python values that may be None
PyNone == <<"None">>
PyStr(parts) == <<"str", parts>>
Truthy(v) == v[1] = "str" /\ v[2] # <<>>

\* hashlib.sha256(...).hexdigest(): the digest names the bytes it was taken of
EmptyStr == <<>>
Sha256Hex(bytes) == <<"sha256", bytes>>

IsoFormat(t) == <<"iso", t>>

\* -------------------------------------------------------------- filesystem
World == [files |-> files, dirs |-> dirs]

IsFile(W, p) == p \in DOMAIN W.files
IsDir(W, p) == p \in W.dirs
Exists(W, p) == IsFile(W, p) \/ IsDir(W, p)
\* the file at p, if any: <<content>> or <<>>
FileAt(W, p) == IF IsFile(W, p) THEN <<W.files[p]>> ELSE <<>>
FilesUnder(W, d) == {q \in DOMAIN W.files : Under(q, d)}
DirsWithin(W, d) == {q \in W.dirs : Within(q, d)}

WriteFile(W, p, c) ==
    [W EXCEPT !.files = [q \in DOMAIN W.files \cup {p} |->
                            IF q = p THEN c ELSE W.files[q]]]

RmTree_RemovesParent(W, d) ==
    [files |-> [q \in {q \in DOMAIN W.files : ~Within(q, Parent(d))} |-> W.files[q]],
     dirs |-> {q \in W.dirs : ~Within(q, Parent(d))}]

\* shutil.rmtree(d)
RmTree(W, d) ==
    [files |-> [q \in {q \in DOMAIN W.files : ~Within(q, d)} |-> W.files[q]],
     dirs |-> {q \in W.dirs : ~Within(q, d)}]

\* os.makedirs(d): d and the missing directories above it
MakeDirs(W, d) ==
    [W EXCEPT !.dirs = W.dirs \cup {SubSeq(d, 1, i) : i \in 1..Len(d)}]

CopyTree_Moves(W, src, dst) ==
    LET new == {dst \o RelativeTo(q, src) : q \in FilesUnder(W, src)}
        W1 == MakeDirs(W, dst)
    IN  [files |-> [q \in (DOMAIN W.files \ FilesUnder(W, src)) \cup new |->
                        IF q \in new THEN W.files[src \o RelativeTo(q, dst)]
                        ELSE W.files[q]],
         dirs |-> W1.dirs \cup {dst \o RelativeTo(q, src) : q \in DirsWithin(W, src)}]

\* shutil.copytree(src, dst) once its checks have passed
CopyTree(W, src, dst) ==
    LET new == {dst \o RelativeTo(q, src) : q \in FilesUnder(W, src)}
        W1 == MakeDirs(W, dst)
    IN  [files |-> [q \in DOMAIN W.files \cup new |->
                        IF q \in new THEN W.files[src \o RelativeTo(q, dst)]
                        ELSE W.files[q]],
         dirs |-> W1.dirs \cup {dst \o RelativeTo(q, src) : q \in DirsWithin(W, src)}]

\* open(p, 'w') / open(p, 'wb'): "" when it succeeds, else the exception
OpenForWrite(W, p) ==
    IF IsDir(W, p) THEN "IsADirectoryError"
    ELSE IF ~IsDir(W, Parent(p)) THEN
        (IF IsFile(W, Parent(p)) THEN "NotADirectoryError" ELSE "FileNotFoundError")
    ELSE ""

\* open(p, 'r') / open(p, 'rb')
OpenForRead(W, p) ==
    IF IsDir(W, p) THEN "IsADirectoryError"
    ELSE IF ~IsFile(W, p) THEN "FileNotFoundError"
    ELSE ""

\* ------------------------------------------------- pack_plugin, step by step
\* The locals of one invocation: pc is the next step, exc the exception that
\* is propagating through the try block ("" for none), result the outcome
\* ("" while running, "ok", or the exception raised).  snap, pass1, writes,
\* events, run, faulted, alone, pass2 and prev record history and change no step.
TempDir_Shared(L) == <<"out", ".fleet-pack">>

\* temp_dir = plugin_dir / ".fleet-pack"
TempDir(L) == L.plugin_dir \o <<".fleet-pack">>

PackageJsonPath(L) == L.plugin_dir \o <<"package.json">>

Goto(W, L, next) == [w |-> W, l |-> [L EXCEPT !.pc = next]]

\* an exception inside the try block: control goes to the finally clause
Raise(W, L, e) == [w |-> W, l |-> [L EXCEPT !.pc = "cleanup", !.exc = e]]

\* an exception before the try block: pack_plugin raises at once
Abort(W, L, e) == [w |-> W, l |-> [L EXCEPT !.pc = "done", !.result = e]]

CheckDescriptor(W, L) ==
    IF ~Exists(W, PackageJsonPath(L))
    THEN Abort(W, L, "FileNotFoundError")
    ELSE Goto(W, L, "load")

Required == {"name", "version", "description", "author"}

Get(d, key, default) == IF key \in DOMAIN d THEN d[key] ELSE default

ExtractManifest_NoDefaults(package_json) ==
    [name |-> package_json["name"],
     version |-> package_json["version"],
     description |-> package_json["description"],
     author |-> package_json["author"],
     icon |-> Get(package_json, "icon", PyNone),
     commands |-> Get(package_json, "commands", PyNone),
     permissions |-> Get(package_json, "permissions", PyNone)]

ExtractManifest(package_json) ==
    [name |-> package_json["name"],
     version |-> package_json["version"],
     description |-> package_json["description"],
     author |-> package_json["author"],
     icon |-> Get(package_json, "icon", PyNone),
     commands |-> Get(package_json, "commands", <<>>),
     permissions |-> Get(package_json, "permissions", <<>>)]

LoadDescriptor_LenientAuthor(W, L) ==
    LET c == W.files[PackageJsonPath(L)]
    IN  IF OpenForRead(W, PackageJsonPath(L)) # ""
        THEN Abort(W, L, OpenForRead(W, PackageJsonPath(L)))
        ELSE IF ~JsonParses(c) THEN Abort(W, L, "ValueError")
        ELSE IF c.t # "object" THEN Abort(W, L, "TypeError")
        ELSE IF ~((Required \ {"author"}) \subseteq DOMAIN c.v) THEN Abort(W, L, "KeyError")
        ELSE [w |-> W,
              l |-> [L EXCEPT !.pc = "rm_stale",
                              !.manifest = ExtractManifest(
                                  [key \in DOMAIN c.v \cup {"author"} |->
                                      Get(c.v, key, "")])]]

\* lines 45-57: open, json.load, then the manifest's field accesses
LoadDescriptor(W, L) ==
    LET c == W.files[PackageJsonPath(L)]
    IN  IF OpenForRead(W, PackageJsonPath(L)) # ""
        THEN Abort(W, L, OpenForRead(W, PackageJsonPath(L)))
        ELSE IF ~JsonParses(c) THEN Abort(W, L, "ValueError")
        ELSE IF c.t # "object" THEN Abort(W, L, "TypeError")
        ELSE IF ~(Required \subseteq DOMAIN c.v) THEN Abort(W, L, "KeyError")
        ELSE [w |-> W,
              l |-> [L EXCEPT !.pc = "rm_stale", !.manifest = ExtractManifest(c.v)]]

\* lines 61-62
RemoveStale(W, L) ==
    IF ~Exists(W, TempDir(L)) THEN Goto(W, L, "mkdir")
    ELSE IF IsFile(W, TempDir(L)) THEN Abort(W, L, "NotADirectoryError")
    ELSE Goto(RmTree(W, TempDir(L)), L, "mkdir")

\* line 63
MakeStaging(W, L) ==
    IF Exists(W, TempDir(L))
    THEN Abort(W, L, "FileExistsError")
    ELSE IF ~IsDir(W, Parent(TempDir(L))) THEN Abort(W, L, "FileNotFoundError")
    ELSE Goto([W EXCEPT !.dirs = W.dirs \cup {TempDir(L)}], L, "copy_dist")

\* lines 67-69 and 72-74: if <plugin_dir>/<sub> exists, copytree it into staging
CopySubdir(W, L, sub, next) ==
    LET src == L.plugin_dir \o <<sub>>
        dst == TempDir(L) \o <<sub>>
    IN  IF ~Exists(W, src) THEN Goto(W, L, next)
        ELSE IF IsFile(W, src) THEN Raise(W, L, "NotADirectoryError")
        ELSE IF Exists(W, dst) THEN Raise(W, L, "FileExistsError")
        ELSE IF IsFile(W, TempDir(L)) THEN Raise(W, L, "NotADirectoryError")
        ELSE Goto(CopyTree(W, src, dst), L, next)

CopyDist(W, L) == CopySubdir(W, L, "dist", "copy_assets")

CopyAssets(W, L) == CopySubdir(W, L, "assets", "copy_icon")

\* lines 77-80
CopyIcon(W, L) ==
    IF ~Truthy(L.manifest.icon) THEN Goto(W, L, "write_manifest")
    ELSE
        LET icon_path == L.plugin_dir \o L.manifest.icon[2]
            at_root == TempDir(L) \o <<Name(icon_path)>>
            dst == IF IsDir(W, at_root) THEN at_root \o <<Name(icon_path)>> ELSE at_root
        IN  IF ~Exists(W, icon_path) THEN Goto(W, L, "write_manifest")
            ELSE IF IsDir(W, icon_path) THEN Raise(W, L, "IsADirectoryError")
            ELSE IF OpenForWrite(W, dst) # "" THEN Raise(W, L, OpenForWrite(W, dst))
            ELSE Goto(WriteFile(W, dst, W.files[icon_path]), L, "write_manifest")

\* open(temp_dir / name, 'w') and json.dump(value, f)
DumpToStaging(W, L, name, value, next) ==
    LET p == TempDir(L) \o <<name>>
    IN  IF OpenForWrite(W, p) # "" THEN Raise(W, L, OpenForWrite(W, p))
        ELSE Goto(WriteFile(W, p, JsonDump(value)), L, next)

\* lines 83-84
WriteManifest(W, L) == DumpToStaging(W, L, "manifest.json", L.manifest, "write_metadata")

create_plugin_metadata(manifest, build_time) ==
    [manifest |-> manifest,
     checksum |-> EmptyStr,
     buildTime |-> build_time,
     fleetChatVersion |-> "1.0.0"]

\* lines 87-89
WriteMetadata(W, L) ==
    LET metadata == create_plugin_metadata(L.manifest, IsoFormat(L.now))
        L1 == [L EXCEPT !.metadata = metadata,
                        !.events = Append(L.events, "stage_metadata")]
    IN  DumpToStaging(W, L1, "metadata.json", metadata, "zip1")

\* What zipf.write reads from a staged file: the file's content, except that
\* the archive under construction, when it lies in the staging directory
\* itself, is read while it is being written.
StagedBytes(W, L, q) == IF q = L.output_path THEN L.self_read ELSE W.files[q]

\* lines 92-97 and 106-111: the archive of everything os.walk(temp_dir) finds,
\* named relative to temp_dir; the world after ZipFile(output_path, 'w') is W
ArchiveOf(W, L) ==
    ZipBytes([a \in {RelativeTo(q, TempDir(L)) : q \in FilesUnder(W, TempDir(L))} |->
                 StagedBytes(W, L, TempDir(L) \o a)])

WriteArchive(W, L) ==
    LET opened == WriteFile(W, L.output_path, EmptyFile)
    IN  WriteFile(opened, L.output_path, ArchiveOf(opened, L))

ZipPass1(W, L) ==
    IF OpenForWrite(W, L.output_path) # ""
    THEN Raise(W, L, OpenForWrite(W, L.output_path))
    ELSE LET W1 == WriteArchive(W, L)
         IN  Goto(W1, [L EXCEPT !.pass1 = W1.files[L.output_path],
                                !.writes = L.writes + 1,
                                !.events = Append(L.events, "write_output")],
                  "checksum")

calculate_checksum(W, file_path) == Sha256Hex(W.files[file_path])

ComputeChecksum_OfStagedMetadata(W, L) ==
    Goto(W, [L EXCEPT !.checksum = Sha256Hex(FileAt(W, TempDir(L) \o <<"metadata.json">>)),
                      !.events = Append(L.events, "digest")],
         "rewrite_metadata")

\* line 100
ComputeChecksum(W, L) ==
    IF OpenForRead(W, L.output_path) # ""
    THEN Raise(W, L, OpenForRead(W, L.output_path))
    ELSE Goto(W, [L EXCEPT !.checksum = calculate_checksum(W, L.output_path),
                           !.events = Append(L.events, "digest")],
              "rewrite_metadata")

\* lines 101-103
RewriteMetadata(W, L) ==
    LET metadata == [L.metadata EXCEPT !.checksum = L.checksum]
        L1 == [L EXCEPT !.metadata = metadata,
                        !.events = Append(L.events, "rewrite_metadata")]
    IN  DumpToStaging(W, L1, "metadata.json", metadata, "zip2")

ZipPass2(W, L) ==
    IF OpenForWrite(W, L.output_path) # ""
    THEN Raise(W, L, OpenForWrite(W, L.output_path))
    ELSE LET W1 == WriteArchive(W, L)
         IN  Goto(W1, [L EXCEPT !.pass2 = W1.files[L.output_path],
                                !.writes = L.writes + 1,
                                !.events = Append(L.events, "write_output")],
                  "getsize")

\* lines 114-117
GetSize(W, L) ==
    IF ~Exists(W, L.output_path) THEN Raise(W, L, "FileNotFoundError")
    ELSE Goto(W, L, "cleanup")

Outcome(L) == IF L.exc = "" THEN "ok" ELSE L.exc

\* lines 119-122, then the return or the re-raise
Cleanup(W, L) ==
    IF ~Exists(W, TempDir(L))
    THEN [w |-> W, l |-> [L EXCEPT !.pc = "done", !.result = Outcome(L)]]
    ELSE IF IsFile(W, TempDir(L))
    THEN [w |-> W, l |-> [L EXCEPT !.pc = "done", !.result = "NotADirectoryError"]]
    ELSE [w |-> RmTree(W, TempDir(L)),
          l |-> [L EXCEPT !.pc = "done", !.result = Outcome(L),
                          !.events = Append(L.events, "remove_staging")]]

Step(W, L) ==
    CASE L.pc = "check" -> CheckDescriptor(W, L)
      [] L.pc = "load" -> LoadDescriptor(W, L)
      [] L.pc = "rm_stale" -> RemoveStale(W, L)
      [] L.pc = "mkdir" -> MakeStaging(W, L)
      [] L.pc = "copy_dist" -> CopyDist(W, L)
      [] L.pc = "copy_assets" -> CopyAssets(W, L)
      [] L.pc = "copy_icon" -> CopyIcon(W, L)
      [] L.pc = "write_manifest" -> WriteManifest(W, L)
      [] L.pc = "write_metadata" -> WriteMetadata(W, L)
      [] L.pc = "zip1" -> ZipPass1(W, L)
      [] L.pc = "checksum" -> ComputeChecksum(W, L)
      [] L.pc = "rewrite_metadata" -> RewriteMetadata(W, L)
      [] L.pc = "zip2" -> ZipPass2(W, L)
      [] L.pc = "getsize" -> GetSize(W, L)
      [] L.pc = "cleanup" -> Cleanup(W, L)

\* pack_plugin run from L to its end with nothing else touching the filesystem
RECURSIVE RunAlone(_, _)
RunAlone(W, L) ==
    IF L.pc = "done" THEN [w |-> W, l |-> L]
    ELSE RunAlone(Step(W, L).w, Step(W, L).l)

\* -------------------------------------------------------- initial filesystems
A == <<"A">>
B == <<"B">>
OutDir == <<"out">>

FromPairs(S) == [p \in {x[1] : x \in S} |-> (CHOOSE x \in S : x[1] = p)[2]]

Base ==
    [name |-> "demo", version |-> "1.0.0", description |-> "d", author |-> "a",
     scripts |-> "build"]

Without(d, key) == [x \in DOMAIN d \ {key} |-> d[x]]

\* icon values tried: null, a file beside package.json, files named like the
\* two generated files, a file in assets, the assets directory itself, and a
\* file img/dist named like the dist directory
IconValues ==
    {PyNone, PyStr(<<"icon.png">>), PyStr(<<"manifest.json">>),
     PyStr(<<"metadata.json">>), PyStr(<<"assets", "logo.png">>),
     PyStr(<<"assets">>), PyStr(<<"img", "dist">>)}

\* the package.json documents tried: complete ones (with and without the
\* optional keys), ones lacking a required key, and ones that are no object
CompleteDescriptors ==
    {Base, Base @@ ("commands" :> <<"hello">>) @@ ("permissions" :> <<"net">>)}
    \cup {Base @@ ("icon" :> i) : i \in IconValues}

DescriptorFiles ==
    {Raw("not json"), JsonArray(<<"x">>)}
    \cup {JsonDump(Without(Base, "author")), JsonDump(Without(Base, "name"))}
    \cup {JsonDump(d) : d \in CompleteDescriptors}

DistRel == <<<<"index.js">>, <<"lib", "util.js">>, <<"lib", "extra.js">>, <<"more.js">>>>

\* A plugin directory: desc is <<>> (no package.json) or <<content>>; nd < 0
\* is no dist directory, else the number of files in it; rootfiles puts
\* icon.png, manifest.json, metadata.json and img/dist into the directory;
\* stale is a staging directory left by an earlier run.
SourceTree(src, desc, nd, assets, rootfiles, stale) ==
    [files |-> FromPairs(
        {<<src \o <<"package.json">>, desc[i]>> : i \in DOMAIN desc}
        \cup {<<src \o <<"dist">> \o DistRel[i], Raw(DistRel[i])>> : i \in 1..nd}
        \cup (IF assets THEN {<<src \o <<"assets", "logo.png">>, Raw("logo")>>} ELSE {})
        \cup (IF rootfiles
              THEN {<<src \o <<"icon.png">>, Raw("icon")>>,
                    <<src \o <<"manifest.json">>, Raw("not the manifest")>>,
                    <<src \o <<"metadata.json">>, Raw("not the metadata")>>,
                    <<src \o <<"img", "dist">>, Raw("icon")>>}
              ELSE {})
        \cup (IF stale THEN {<<src \o <<".fleet-pack", "stale.txt">>, Raw("stale")>>}
              ELSE {})),
     dirs |-> {src}
        \cup (IF nd >= 0 THEN {src \o <<"dist">>} ELSE {})
        \cup (IF nd >= 2 THEN {src \o <<"dist", "lib">>} ELSE {})
        \cup (IF assets THEN {src \o <<"assets">>} ELSE {})
        \cup (IF rootfiles THEN {src \o <<"img">>} ELSE {})
        \cup (IF stale THEN {src \o <<".fleet-pack">>} ELSE {})]

Merge(W1, W2) == [files |-> W1.files @@ W2.files, dirs |-> W1.dirs \cup W2.dirs]

Outside(old) ==
    [files |-> FromPairs(IF old THEN {<<OutDir \o <<"p.fcp">>, Raw("old")>>} ELSE {}),
     dirs |-> {<<>>, OutDir}]

\* the output paths tried for a plugin directory
OutputPaths(src) ==
    {OutDir \o <<"p.fcp">>,
     src \o <<".fleet-pack", "p.fcp">>,
     src \o <<".fleet-pack", "metadata.json">>,
     src \o <<"package.json">>,
     src \o <<"dist">>,
     src \o <<"assets">>,
     src \o <<"dist", "p.fcp">>}

SelfReads(src, out) ==
    IF Under(out, src \o <<".fleet-pack">>) THEN {EmptyFile, Truncated} ELSE {EmptyFile}

\* the locals at the call pack_plugin(src, out) made in filesystem W
NewCall(src, out, W, self_read, run, now) ==
    [pc |-> "check", plugin_dir |-> src, output_path |-> out,
     manifest |-> Unset, metadata |-> Unset, checksum |-> Unset,
     exc |-> "", result |-> "", now |-> now, self_read |-> self_read,
     snap |-> W, pass1 |-> Unset, writes |-> 0, events |-> <<>>, run |-> run,
     faulted |-> FALSE, alone |-> Unset, pass2 |-> Unset, prev |-> Unset]

\* what the call yields when it runs alone: its outcome and the file at out
AloneResult(L) ==
    LET r == RunAlone(L.snap, L)
    IN  [result |-> r.l.result, out |-> FileAt(r.w, L.output_path)]

Init ==
    \E desc \in {<<>>} \cup {<<c>> : c \in DescriptorFiles},
       nd \in -1..MaxDistFiles, assets, rootfiles, stale, old \in BOOLEAN,
       out \in OutputPaths(A) :
        \E self_read \in SelfReads(A, out) :
            LET W == Merge(SourceTree(A, desc, nd, assets, rootfiles, stale), Outside(old))
            IN  /\ old => out = OutDir \o <<"p.fcp">>
                /\ files = W.files
                /\ dirs = W.dirs
                /\ proc = (1 :> NewCall(A, out, W, self_read, 1, 0))
                /\ clock = 0
                /\ faults = 0

\* ------------------------------------------------------------------ actions
Do(p, r) ==
    /\ files' = r.w.files
    /\ dirs' = r.w.dirs
    /\ proc' = [proc EXCEPT ![p] = r.l]
    /\ UNCHANGED <<clock, faults>>

At(p, label) == proc[p].pc = label

DoCheckDescriptor(p) == At(p, "check") /\ Do(p, CheckDescriptor(World, proc[p]))
DoLoadDescriptor(p) == At(p, "load") /\ Do(p, LoadDescriptor(World, proc[p]))
DoRemoveStale(p) == At(p, "rm_stale") /\ Do(p, RemoveStale(World, proc[p]))
DoMakeStaging(p) == At(p, "mkdir") /\ Do(p, MakeStaging(World, proc[p]))
DoCopyDist(p) == At(p, "copy_dist") /\ Do(p, CopyDist(World, proc[p]))
DoCopyAssets(p) == At(p, "copy_assets") /\ Do(p, CopyAssets(World, proc[p]))
DoCopyIcon(p) == At(p, "copy_icon") /\ Do(p, CopyIcon(World, proc[p]))
DoWriteManifest(p) == At(p, "write_manifest") /\ Do(p, WriteManifest(World, proc[p]))
DoWriteMetadata(p) == At(p, "write_metadata") /\ Do(p, WriteMetadata(World, proc[p]))
DoZipPass1(p) == At(p, "zip1") /\ Do(p, ZipPass1(World, proc[p]))
DoComputeChecksum(p) == At(p, "checksum") /\ Do(p, ComputeChecksum(World, proc[p]))
DoRewriteMetadata(p) == At(p, "rewrite_metadata") /\ Do(p, RewriteMetadata(World, proc[p]))
DoZipPass2(p) == At(p, "zip2") /\ Do(p, ZipPass2(World, proc[p]))
DoGetSize(p) == At(p, "getsize") /\ Do(p, GetSize(World, proc[p]))
DoCleanup(p) == At(p, "cleanup") /\ Do(p, Cleanup(World, proc[p]))

\* An I/O error of the environment (disk full, permission) inside the try block
Fault(p, W, L) ==
    /\ faults < MaxFaults
    /\ faults' = faults + 1
    /\ files' = W.files
    /\ dirs' = W.dirs
    /\ proc' = [proc EXCEPT ![p] = [L EXCEPT !.pc = "cleanup", !.exc = "OSError",
                                             !.faulted = TRUE]]
    /\ UNCHANGED clock

\* shutil.copytree or shutil.copy2 fails
CopyFails(p) ==
    /\ \/ At(p, "copy_dist") /\ IsDir(World, proc[p].plugin_dir \o <<"dist">>)
       \/ At(p, "copy_assets") /\ IsDir(World, proc[p].plugin_dir \o <<"assets">>)
       \/ /\ At(p, "copy_icon")
          /\ Truthy(proc[p].manifest.icon)
          /\ IsFile(World, proc[p].plugin_dir \o proc[p].manifest.icon[2])
    /\ Fault(p, World, proc[p])

\* a write into the opened archive fails: a truncated file stays at output_path
ArchiveWriteFails(p) ==
    /\ At(p, "zip1") \/ At(p, "zip2")
    /\ OpenForWrite(World, proc[p].output_path) = ""
    /\ Fault(p, WriteFile(World, proc[p].output_path, Truncated),
             [proc[p] EXCEPT !.writes = proc[p].writes + 1,
                             !.events = Append(proc[p].events, "write_output")])

\* reading output_path back for the digest fails
HashFails(p) ==
    /\ At(p, "checksum")
    /\ Fault(p, World, proc[p])

\* pack_plugin is called again with the same arguments
Restart(p) ==
    /\ At(p, "done")
    /\ proc[p].run < MaxRuns
    /\ \E now \in {clock, clock + 1} :
        /\ clock' = now
        /\ proc' = [proc EXCEPT ![p] =
                        [NewCall(proc[p].plugin_dir, proc[p].output_path, World,
                                 proc[p].self_read, proc[p].run + 1, now)
                         EXCEPT !.prev = [result |-> proc[p].result,
                                          out |-> FileAt(World, proc[p].output_path)]]]
    /\ UNCHANGED <<files, dirs, faults>>

\* one invocation, any number of times in sequence, with I/O errors
Next ==
    \/ \E p \in DOMAIN proc : DoCheckDescriptor(p)
    \/ \E p \in DOMAIN proc : DoLoadDescriptor(p)
    \/ \E p \in DOMAIN proc : DoRemoveStale(p)
    \/ \E p \in DOMAIN proc : DoMakeStaging(p)
    \/ \E p \in DOMAIN proc : DoCopyDist(p)
    \/ \E p \in DOMAIN proc : DoCopyAssets(p)
    \/ \E p \in DOMAIN proc : DoCopyIcon(p)
    \/ \E p \in DOMAIN proc : DoWriteManifest(p)
    \/ \E p \in DOMAIN proc : DoWriteMetadata(p)
    \/ \E p \in DOMAIN proc : DoZipPass1(p)
    \/ \E p \in DOMAIN proc : DoComputeChecksum(p)
    \/ \E p \in DOMAIN proc : DoRewriteMetadata(p)
    \/ \E p \in DOMAIN proc : DoZipPass2(p)
    \/ \E p \in DOMAIN proc : DoGetSize(p)
    \/ \E p \in DOMAIN proc : DoCleanup(p)
    \/ \E p \in DOMAIN proc : CopyFails(p)
    \/ \E p \in DOMAIN proc : ArchiveWriteFails(p)
    \/ \E p \in DOMAIN proc : HashFails(p)
    \/ \E p \in DOMAIN proc : Restart(p)

Spec == Init /\ [][Next]_vars

\* ----------------------------------------------------- concurrent invocations
\* Two invocations run at once, each once and with no I/O error; their steps
\* interleave.  Both plugin directories hold a complete descriptor.
ConcTree(src, stale) ==
    SourceTree(src, <<JsonDump(Base @@ ("icon" :> PyStr(<<"icon.png">>)))>>,
               1, FALSE, TRUE, stale)

InitConc ==
    \E src2 \in {A, B}, stale \in BOOLEAN,
       out1 \in {OutDir \o <<"p.fcp">>, A \o <<"dist", "p.fcp">>,
                 B \o <<"package.json">>, B \o <<"dist", "p.fcp">>},
       out2 \in {OutDir \o <<"p.fcp">>, OutDir \o <<"q.fcp">>} :
        LET W == Merge(Merge(ConcTree(A, stale), ConcTree(B, stale)), Outside(FALSE))
            L1 == NewCall(A, out1, W, EmptyFile, 1, 0)
            L2 == NewCall(src2, out2, W, EmptyFile, 1, 0)
        IN  /\ files = W.files
            /\ dirs = W.dirs
            /\ proc = (1 :> [L1 EXCEPT !.alone = AloneResult(L1)])
                      @@ (2 :> [L2 EXCEPT !.alone = AloneResult(L2)])
            /\ clock = 0
            /\ faults = 0

NextConc ==
    \/ \E p \in DOMAIN proc : DoCheckDescriptor(p)
    \/ \E p \in DOMAIN proc : DoLoadDescriptor(p)
    \/ \E p \in DOMAIN proc : DoRemoveStale(p)
    \/ \E p \in DOMAIN proc : DoMakeStaging(p)
    \/ \E p \in DOMAIN proc : DoCopyDist(p)
    \/ \E p \in DOMAIN proc : DoCopyAssets(p)
    \/ \E p \in DOMAIN proc : DoCopyIcon(p)
    \/ \E p \in DOMAIN proc : DoWriteManifest(p)
    \/ \E p \in DOMAIN proc : DoWriteMetadata(p)
    \/ \E p \in DOMAIN proc : DoZipPass1(p)
    \/ \E p \in DOMAIN proc : DoComputeChecksum(p)
    \/ \E p \in DOMAIN proc : DoRewriteMetadata(p)
    \/ \E p \in DOMAIN proc : DoZipPass2(p)
    \/ \E p \in DOMAIN proc : DoGetSize(p)
    \/ \E p \in DOMAIN proc : DoCleanup(p)

SpecConc == InitConc /\ [][NextConc]_vars

\* ------------------------------------------------------------------ properties
Done(L) == L.pc = "done"
Succeeded(L) == L.pc = "done" /\ L.result = "ok"

ManifestName == <<"manifest.json">>
MetadataName == <<"metadata.json">>

\* the file at output_path is an archive
HasArchive(W, L) == IsFile(W, L.output_path) /\ W.files[L.output_path].k = "zip"
Entries(W, L) == W.files[L.output_path].v

\* the descriptor as it was when the call was made
DescriptorAtCall(L) == L.snap.files[PackageJsonPath(L)].v
DescriptorMissing(L) == ~Exists(L.snap, PackageJsonPath(L))
DescriptorUnusable(L) ==
    /\ IsFile(L.snap, PackageJsonPath(L))
    /\ ~(/\ L.snap.files[PackageJsonPath(L)].k = "json"
         /\ L.snap.files[PackageJsonPath(L)].t = "object"
         /\ Required \subseteq DOMAIN L.snap.files[PackageJsonPath(L)].v)

MissingDescriptor == "FileNotFoundError"
InvalidDescriptor == {"ValueError", "TypeError", "KeyError"}

OutputUntouched(W, L) ==
    /\ L.writes = 0
    /\ FileAt(W, L.output_path) = FileAt(L.snap, L.output_path)
    /\ IsDir(W, L.output_path) <=> IsDir(L.snap, L.output_path)

\* C1: whenever pack_plugin returns without error, for any output path, the
\* file at output_path exists after the return and is an archive holding a
\* manifest.json and a metadata.json entry.
C1_OutputExistsAfterReturn ==
    \A p \in DOMAIN proc :
        Succeeded(proc[p]) =>
            /\ HasArchive(World, proc[p])
            /\ {ManifestName, MetadataName} \subseteq DOMAIN Entries(World, proc[p])

\* C2: after a successful run the checksum in the metadata.json of the
\* final archive at output_path is the SHA-256 digest of the bytes pass 1
\* wrote to output_path, whose metadata.json had checksum ""; it is not empty
\* and it is not the digest of the final archive.
C2_ChecksumIsDigestOfPass1 ==
    \A p \in DOMAIN proc :
        Succeeded(proc[p]) /\ HasArchive(World, proc[p]) =>
            LET final == World.files[proc[p].output_path]
                sealed == final.v[MetadataName].v.checksum
            IN  /\ proc[p].pass1.k = "zip"
                /\ proc[p].pass1.v[MetadataName].v.checksum = EmptyStr
                /\ sealed = Sha256Hex(proc[p].pass1)
                /\ sealed # EmptyStr
                /\ sealed # Sha256Hex(final)

C2_Witness ==
    \E p \in DOMAIN proc :
        /\ Succeeded(proc[p])
        /\ HasArchive(World, proc[p])
        /\ FileAt(proc[p].snap, proc[p].output_path) = <<Raw("old")>>
        /\ FilesUnder(proc[p].snap, proc[p].plugin_dir \o <<"dist">>) # {}

\* C3: on every exit path, and whatever the filesystem held at the call, the
\* staging directory does not exist once pack_plugin has returned or raised.
C3_StagingGoneOnEveryExit ==
    \A p \in DOMAIN proc :
        Done(proc[p]) => ~Exists(World, TempDir(proc[p]))

\* C4: with package.json absent the call fails as MissingDescriptor, with
\* package.json unparseable or lacking a required field it fails as
\* InvalidDescriptor, and in both cases output_path is never written: it keeps
\* the content it had, or stays missing.
C4_UnusableDescriptorFailsBeforeOutput ==
    \A p \in DOMAIN proc :
        /\ DescriptorMissing(proc[p]) \/ DescriptorUnusable(proc[p]) =>
               OutputUntouched(World, proc[p])
        /\ Done(proc[p]) /\ DescriptorMissing(proc[p]) =>
               proc[p].result = MissingDescriptor
        /\ Done(proc[p]) /\ DescriptorUnusable(proc[p]) =>
               proc[p].result \in InvalidDescriptor

C4_Witness ==
    \E p \in DOMAIN proc :
        /\ Done(proc[p])
        /\ DescriptorUnusable(proc[p])
        /\ proc[p].result = "KeyError"
        /\ FileAt(World, proc[p].output_path) = <<Raw("old")>>

\* the Manifest the descriptor d stands for
IsManifestOf(m, d) ==
    /\ DOMAIN m = {"name", "version", "description", "author", "icon", "commands",
                   "permissions"}
    /\ m.name = d.name
    /\ m.version = d.version
    /\ m.description = d.description
    /\ m.author = d.author
    /\ m.icon = (IF "icon" \in DOMAIN d THEN d.icon ELSE PyNone)
    /\ m.commands = (IF "commands" \in DOMAIN d THEN d.commands ELSE <<>>)
    /\ m.permissions = (IF "permissions" \in DOMAIN d THEN d.permissions ELSE <<>>)

ManifestsAgree(archive, d) ==
    /\ archive.k = "zip"
    /\ {ManifestName, MetadataName} \subseteq DOMAIN archive.v
    /\ JsonParses(archive.v[ManifestName])
    /\ JsonParses(archive.v[MetadataName])
    /\ archive.v[MetadataName].v.manifest = archive.v[ManifestName].v
    /\ IsManifestOf(archive.v[ManifestName].v, d)

\* C5: in the final archive of a successful run, and in its pass-1 archive,
\* the manifest inside metadata.json equals the parsed manifest.json entry and
\* both are the Manifest derived from the descriptor, also when the icon file
\* is itself named manifest.json or metadata.json.
C5_EmbeddedManifestEqualsStandalone ==
    \A p \in DOMAIN proc :
        Succeeded(proc[p]) /\ HasArchive(World, proc[p]) =>
            /\ ManifestsAgree(World.files[proc[p].output_path], DescriptorAtCall(proc[p]))
            /\ ManifestsAgree(proc[p].pass1, DescriptorAtCall(proc[p]))

C5_Witness ==
    \E p \in DOMAIN proc :
        /\ Succeeded(proc[p])
        /\ HasArchive(World, proc[p])
        /\ proc[p].manifest.icon = PyStr(ManifestName)
        /\ IsFile(proc[p].snap, proc[p].plugin_dir \o ManifestName)

\* the entry names the claim gives the archive, from the filesystem at the call
CopiedNames(L, sub) ==
    {<<sub>> \o RelativeTo(q, L.plugin_dir \o <<sub>>) :
        q \in FilesUnder(L.snap, L.plugin_dir \o <<sub>>)}

IconNames(L) ==
    LET d == DescriptorAtCall(L)
    IN  IF "icon" \in DOMAIN d /\ Truthy(d.icon) /\ IsFile(L.snap, L.plugin_dir \o d.icon[2])
        THEN {<<Name(d.icon[2])>>}
        ELSE {}

ExpectedNames(L) ==
    {ManifestName, MetadataName} \cup CopiedNames(L, "dist") \cup CopiedNames(L, "assets")
        \cup IconNames(L)

IconUsable(L) ==
    "icon" \in DOMAIN DescriptorAtCall(L) /\ Truthy(DescriptorAtCall(L).icon)
        => ~Exists(L.snap, L.plugin_dir \o DescriptorAtCall(L).icon[2])

\* C6: the final archive's entry names are exactly manifest.json,
\* metadata.json, dist/<rel> for every file under dist, assets/<rel> for every
\* file under assets, and the icon's file name when the icon is declared and
\* exists; files of a leftover staging directory never appear.  A missing
\* assets directory or a missing icon file fails no run: with a usable
\* descriptor, an output path outside the plugin directory and no I/O error
\* the run succeeds.
C6_ArchiveEntryNames ==
    \A p \in DOMAIN proc :
        /\ Succeeded(proc[p]) /\ HasArchive(World, proc[p]) =>
               DOMAIN Entries(World, proc[p]) = ExpectedNames(proc[p])
        /\ /\ Done(proc[p])
           /\ ~proc[p].faulted
           /\ ~DescriptorMissing(proc[p])
           /\ ~DescriptorUnusable(proc[p])
           /\ ~Within(proc[p].output_path, proc[p].plugin_dir)
           /\ IconUsable(proc[p])
           => Succeeded(proc[p])

\* the paths pack_plugin may change: the staging directory and output_path
MayChange(L, q) == Within(q, TempDir(L)) \/ q = L.output_path

\* C7: from the call on, no path other than the staging directory (and what
\* lies in it) and output_path differs from what it was when pack_plugin was
\* called: same files with the same content, same directories.
C7_OnlyStagingAndOutputChange ==
    \A p \in DOMAIN proc :
        /\ \A q \in DOMAIN files \cup DOMAIN proc[p].snap.files :
               ~MayChange(proc[p], q) =>
                   FileAt(World, q) = FileAt(proc[p].snap, q)
        /\ \A q \in dirs \cup proc[p].snap.dirs :
               ~MayChange(proc[p], q) => (q \in dirs <=> q \in proc[p].snap.dirs)

C7_Witness ==
    \E p \in DOMAIN proc :
        /\ Succeeded(proc[p])
        /\ FilesUnder(proc[p].snap, proc[p].plugin_dir \o <<"dist">>) # {}
        /\ IsFile(proc[p].snap, proc[p].plugin_dir \o <<"assets", "logo.png">>)
        /\ IsFile(World, proc[p].output_path)
        /\ ~IsFile(proc[p].snap, proc[p].output_path)

\* the second of two runs in sequence, the first having succeeded, with no
\* I/O error of the environment in the second
SecondRunOver(L) == L.run >= 2 /\ Done(L) /\ ~L.faulted /\ L.prev.result = "ok"

SameManifestAsBefore(W, L) ==
    HasArchive(W, L) /\ L.prev.out # <<>> =>
        W.files[L.output_path].v[ManifestName] = L.prev.out[1].v[ManifestName]

\* C8 (as claimed): packing twice in sequence with the same arguments
\* succeeds both times and yields the same manifest.json: nothing the first
\* run leaves behind changes the second.
C8_SecondRunSameManifest ==
    \A p \in DOMAIN proc :
        SecondRunOver(proc[p]) =>
            /\ proc[p].result = "ok"
            /\ SameManifestAsBefore(World, proc[p])

ReadBySecondRun(L) ==
    {PackageJsonPath(L), L.plugin_dir \o <<"dist">>, L.plugin_dir \o <<"assets">>}

\* C8 (amended): the same, for an output path that is not the plugin
\* directory's package.json, dist or assets.
C8_SecondRunSameManifest_Amended ==
    \A p \in DOMAIN proc :
        SecondRunOver(proc[p]) /\ proc[p].output_path \notin ReadBySecondRun(proc[p]) =>
            /\ proc[p].result = "ok"
            /\ SameManifestAsBefore(World, proc[p])

C8_Witness ==
    \E p \in DOMAIN proc :
        /\ SecondRunOver(proc[p])
        /\ proc[p].result = "ok"
        /\ proc[p].output_path = proc[p].plugin_dir \o <<"dist", "p.fcp">>
        /\ proc[p].prev.out # <<>>
        /\ HasArchive(World, proc[p])
        /\ proc[p].now = 0

SuccessfulRunEvents ==
    <<"stage_metadata", "write_output", "digest", "rewrite_metadata", "write_output",
      "remove_staging">>

\* C9: a successful run stages metadata.json with an empty checksum, writes
\* output_path (pass 1), takes its digest, rewrites metadata.json, writes
\* output_path again (pass 2) and removes the staging directory, in this
\* order; output_path is written exactly twice; pass 2 has the entry names of
\* pass 1 and differs only in metadata.json's checksum; and on return
\* output_path holds the pass-2 archive, never one with an empty checksum.
C9_TwoPassOrderAndFinalArchive ==
    \A p \in DOMAIN proc :
        Succeeded(proc[p]) =>
            /\ proc[p].events = SuccessfulRunEvents
            /\ proc[p].writes = 2
            /\ FileAt(World, proc[p].output_path) = <<proc[p].pass2>>
            /\ proc[p].pass1.v[MetadataName].v.checksum = EmptyStr
            /\ DOMAIN proc[p].pass2.v = DOMAIN proc[p].pass1.v
            /\ \A a \in DOMAIN proc[p].pass1.v \ {MetadataName} :
                   proc[p].pass2.v[a] = proc[p].pass1.v[a]
            /\ proc[p].pass2.v[MetadataName].v =
                   [proc[p].pass1.v[MetadataName].v EXCEPT !.checksum = proc[p].checksum]
            /\ proc[p].pass2.v[MetadataName].v.checksum # EmptyStr

\* the invocation ended as it does when it runs alone: same outcome, same
\* file at its output_path
AsAlone(W, L) ==
    /\ L.result = L.alone.result
    /\ FileAt(W, L.output_path) = L.alone.out

DifferentCalls(L1, L2) ==
    L1.plugin_dir # L2.plugin_dir /\ L1.output_path # L2.output_path

OutputsApart(L1, L2) ==
    /\ ~Within(L1.output_path, L2.plugin_dir)
    /\ ~Within(L2.output_path, L1.plugin_dir)

C10_IsolatedCase ==
    \E p, q \in DOMAIN proc :
        /\ p # q
        /\ DifferentCalls(proc[p], proc[q])
        /\ OutputsApart(proc[p], proc[q])
        /\ Succeeded(proc[p]) /\ Succeeded(proc[q])
        /\ AsAlone(World, proc[p]) /\ AsAlone(World, proc[q])
====
